---------------------------- MODULE Spec2Model ----------------------------
(***************************************************************************)
(* Model of scripts/analysis.py: the loader, the indicator engine          *)
(* (compute_indicators, with its TA-Lib branch and its pandas fallback),   *)
(* and the metrics aggregator (compute_financial_metrics, with its         *)
(* optional pynance source), as run by main.                               *)
(*                                                                         *)
(* Numbers are exact.  A float of the program is one of                    *)
(*   [t |-> "nan"]                      not-a-number                       *)
(*   [t |-> "inf"]                      +infinity                          *)
(*   [t |-> "rat", n |-> n, d |-> d]    the rational n/d in lowest terms   *)
(*   [t |-> "fx", i |-> i, f |-> f]     the fixed-point number             *)
(*                                      i + SUM f[k] / FxBase^k            *)
(*   [t |-> "quot", n |-> x, d |-> y]   the quotient of two "fx" numbers   *)
(* Rounding is not modelled: the arithmetic is that of the reals.          *)
(***************************************************************************)
EXTENDS Integers, Sequences, FiniteSets, TLC

(***************************************************************************)
(* Bounds of the model.                                                    *)
(***************************************************************************)
\* longest single price series handed to the indicator engine
MaxLen == 21
\* largest number of rows of the table main loads (all files together)
MaxRows == 3
\* largest close price of a CSV row in the pipeline of main
MaxClose == 4

(***************************************************************************)
(* Program constants.                                                      *)
(***************************************************************************)
SMA_PERIOD == 20
EMA_SPAN == 20
RSI_PERIOD == 14
MACD_FAST == 12
MACD_SLOW == 26
MACD_SIGNAL == 9
TRADING_DAYS == 252

(***************************************************************************)
(* Exact arithmetic: rationals.                                            *)
(***************************************************************************)
NaN == [t |-> "nan"]
Inf == [t |-> "inf"]

Abs(x) == IF x < 0 THEN -x ELSE x

Max(a, b) == IF a >= b THEN a ELSE b

RECURSIVE Gcd(_, _)
Gcd(a, b) == IF b = 0 THEN a ELSE Gcd(b, a % b)

\* the rational n/d (d # 0) in lowest terms, with a positive denominator
Rat(n, d) ==
    LET g == Gcd(Abs(n), Abs(d))
        s == IF d < 0 THEN -1 ELSE 1
    IN  [t |-> "rat", n |-> s * (n \div g), d |-> s * (d \div g)]

Int2Rat(k) == [t |-> "rat", n |-> k, d |-> 1]

IsNaN(x) == x.t = "nan"

\* float addition, subtraction, multiplication and division, on nan, inf and
\* the rationals (IEEE: x/0 is inf for x > 0 and nan for x = 0; a/inf is 0)
FAdd(x, y) ==
    IF IsNaN(x) \/ IsNaN(y) THEN NaN
    ELSE IF x.t = "inf" \/ y.t = "inf" THEN Inf
    ELSE Rat(x.n * y.d + y.n * x.d, x.d * y.d)

FNeg(x) == IF x.t = "rat" THEN Rat(-x.n, x.d) ELSE NaN

FSub(x, y) ==
    IF IsNaN(x) \/ IsNaN(y) THEN NaN
    ELSE IF y.t = "inf" THEN NaN
    ELSE IF x.t = "inf" THEN Inf
    ELSE Rat(x.n * y.d - y.n * x.d, x.d * y.d)

FMul(x, y) ==
    IF IsNaN(x) \/ IsNaN(y) THEN NaN
    ELSE IF x.t = "inf" \/ y.t = "inf" THEN NaN
    ELSE Rat(x.n * y.n, x.d * y.d)

FDiv(x, y) ==
    IF IsNaN(x) \/ IsNaN(y) THEN NaN
    ELSE IF x.t = "inf" THEN NaN
    ELSE IF y.t = "inf" THEN Int2Rat(0)
    ELSE IF y.n = 0 THEN (IF x.n = 0 THEN NaN ELSE IF x.n > 0 THEN Inf ELSE NaN)
    ELSE Rat(x.n * y.d, x.d * y.n)

(***************************************************************************)
(* Exact arithmetic: fixed-point numbers in base FxBase.  Every divisor    *)
(* of the exponential averages (span + 1, and TA-Lib's seeding periods)    *)
(* divides FxBase, so each division ends after one more digit.             *)
(***************************************************************************)
FxBase == 4 * 27 * 5 * 7 * 13

RECURSIVE FxTrim(_)
FxTrim(f) ==
    IF f # <<>> /\ f[Len(f)] = 0 THEN FxTrim(SubSeq(f, 1, Len(f) - 1)) ELSE f

Fx(i, f) == [t |-> "fx", i |-> i, f |-> FxTrim(f)]

Int2Fx(k) == [t |-> "fx", i |-> k, f |-> <<>>]

FxDigit(f, k) == IF k <= Len(f) THEN f[k] ELSE 0

\* digits k..1 of ka*a + kb*b, least significant first in the recursion:
\* <<carry into the integer part, digits 1..k>>
RECURSIVE FxLinDigits(_, _, _, _, _, _)
FxLinDigits(ka, a, kb, b, k, carry) ==
    IF k = 0 THEN <<carry, <<>>>>
    ELSE LET s == ka * FxDigit(a, k) + kb * FxDigit(b, k) + carry
             r == FxLinDigits(ka, a, kb, b, k - 1, s \div FxBase)
         IN  <<r[1], Append(r[2], s % FxBase)>>

\* ka*x + kb*y for small integers ka, kb
FxLin(ka, x, kb, y) ==
    LET r == FxLinDigits(ka, x.f, kb, y.f, Max(Len(x.f), Len(y.f)), 0)
    IN  Fx(ka * x.i + kb * y.i + r[1], r[2])

FxSub(x, y) == FxLin(1, x, -1, y)

\* long division of the digits by k, most significant first, from remainder r
RECURSIVE FxDivDigits(_, _, _, _)
FxDivDigits(f, j, k, r) ==
    IF j > Len(f) /\ r = 0 THEN <<>>
    ELSE LET cur == r * FxBase + FxDigit(f, j)
         IN  <<cur \div k>> \o FxDivDigits(f, j + 1, k, cur % k)

\* x / k for an integer k > 0 all of whose prime factors divide FxBase
FxDivSmall(x, k) == Fx(x.i \div k, FxDivDigits(x.f, 1, k, x.i % k))

(***************************************************************************)
(* Equality of two floats as numbers (nan equals nothing, as in IEEE).     *)
(***************************************************************************)
Rat2FxOk(x) == x.t = "rat" /\ FxBase % x.d = 0

\* a rational whose denominator divides FxBase, as a fixed-point number
Rat2Fx(x) == FxDivSmall(Int2Fx(x.n), x.d)

NumEq(x, y) ==
    IF IsNaN(x) \/ IsNaN(y) THEN FALSE
    ELSE IF x.t = "inf" \/ y.t = "inf" THEN x.t = y.t
    ELSE IF x.t = "rat" /\ y.t = "rat" THEN x.n = y.n /\ x.d = y.d
    ELSE IF x.t = "fx" /\ y.t = "fx" THEN x.i = y.i /\ x.f = y.f
    ELSE IF x.t = "fx" /\ y.t = "rat"
         THEN FxLin(y.d, x, 0, x) = Int2Fx(y.n)
    ELSE IF x.t = "rat" /\ y.t = "fx"
         THEN FxLin(x.d, y, 0, y) = Int2Fx(x.n)
    ELSE IF x.t = "quot" /\ y.t = "rat"
         THEN FxLin(y.d, x.n, 0, x.n) = FxLin(y.n, x.d, 0, x.d)
    ELSE IF x.t = "rat" /\ y.t = "quot"
         THEN FxLin(x.d, y.n, 0, y.n) = FxLin(x.n, y.d, 0, y.d)
    ELSE FALSE

IsInt(x, k) == NumEq(x, Int2Rat(k))

(***************************************************************************)
(* Series helpers (pandas).  A series is a sequence of floats, 1-based:    *)
(* row r of the program (0-based) is element r + 1.                        *)
(***************************************************************************)
\* Series.astype(float) on an integer column, as rationals
AsRat(col) == [ix \in 1..Len(col) |-> Int2Rat(col[ix])]

\* the same column as fixed-point numbers (the input of the ewm recurrences)
AsFx(col) == [ix \in 1..Len(col) |-> Int2Fx(col[ix])]

\* sum and count of the non-nan elements lo..hi of s
RECURSIVE WindowSum(_, _, _)
WindowSum(s, lo, hi) ==
    IF lo > hi THEN Int2Rat(0)
    ELSE IF IsNaN(s[hi]) THEN WindowSum(s, lo, hi - 1)
    ELSE FAdd(WindowSum(s, lo, hi - 1), s[hi])

WindowCount(s, lo, hi) == Cardinality({kx \in lo..hi : ~IsNaN(s[kx])})

\* Series.rolling(window, min_periods).mean(): the mean of the non-nan
\* observations of the trailing window, nan when fewer than min_periods
RollingMean(s, window, min_periods) ==
    [ix \in 1..Len(s) |->
        LET lo == Max(1, ix - window + 1)
            nobs == WindowCount(s, lo, ix)
        IN  IF nobs >= min_periods /\ nobs > 0
            THEN FDiv(WindowSum(s, lo, ix), Int2Rat(nobs))
            ELSE NaN]

\* Series.diff(): nan at the first row
Diff(s) == [ix \in 1..Len(s) |-> IF ix = 1 THEN NaN ELSE FSub(s[ix], s[ix - 1])]

\* Series.clip(lower=0) and Series.clip(upper=0): nan stays nan
ClipLower0(s) ==
    [ix \in 1..Len(s) |-> IF IsNaN(s[ix]) \/ s[ix].n >= 0 THEN s[ix] ELSE Int2Rat(0)]

ClipUpper0(s) ==
    [ix \in 1..Len(s) |-> IF IsNaN(s[ix]) \/ s[ix].n <= 0 THEN s[ix] ELSE Int2Rat(0)]

\* one step of an exponential average with alpha = 2/(span+1):
\* alpha*x + (1-alpha)*prev
EwmStep(prev, x, span) == FxDivSmall(FxLin(2, x, span - 1, prev), span + 1)

\* Series.ewm(span, adjust=False).mean() of a series without nan: seeded at
\* the first element
RECURSIVE Ewm(_, _)
Ewm(s, span) ==
    IF Len(s) = 0 THEN <<>>
    ELSE IF Len(s) = 1 THEN <<s[1]>>
    ELSE LET head == Ewm(SubSeq(s, 1, Len(s) - 1), span)
         IN  Append(head, EwmStep(head[Len(head)], s[Len(s)], span))

(***************************************************************************)
(* The pandas fallbacks of compute_indicators.                             *)
(***************************************************************************)
Fallback_SMA(close) == RollingMean(AsRat(close), SMA_PERIOD, 1)

Fallback_EMA(close) == Ewm(AsFx(close), EMA_SPAN)

\* 100 - 100 / (1 + rs) with rs = ma_up / ma_down
RsiFromAveragesNoComplement(ma_up, ma_down) ==
    FDiv(Int2Rat(100), FAdd(Int2Rat(1), FDiv(ma_up, ma_down)))

RsiFromAverages(ma_up, ma_down) ==
    FSub(Int2Rat(100), FDiv(Int2Rat(100), FAdd(Int2Rat(1), FDiv(ma_up, ma_down))))

Fallback_RSI(close) ==
    LET delta == Diff(AsRat(close))
        up == ClipLower0(delta)
        dn == ClipUpper0(delta)
        down == [ix \in 1..Len(dn) |-> FNeg(dn[ix])]
        ma_up == RollingMean(up, RSI_PERIOD, RSI_PERIOD)
        ma_down == RollingMean(down, RSI_PERIOD, RSI_PERIOD)
    IN  [ix \in 1..Len(close) |-> RsiFromAverages(ma_up[ix], ma_down[ix])]

Fallback_MACD(close) ==
    LET ema12 == Ewm(AsFx(close), MACD_FAST)
        ema26 == Ewm(AsFx(close), MACD_SLOW)
    IN  [ix \in 1..Len(close) |-> FxSub(ema12[ix], ema26[ix])]

Fallback_MACD_signal(macd) == Ewm(macd, MACD_SIGNAL)

(***************************************************************************)
(* The TA-Lib functions compute_indicators calls when the library is       *)
(* installed.  TA-Lib leaves the first `lookback` outputs nan and seeds     *)
(* its exponential averages with a simple average:                         *)
(*   SMA(n)   lookback n-1                                                  *)
(*   EMA(n)   lookback n-1, seeded with the mean of the first n closes      *)
(*   RSI(n)   lookback n, Wilder's smoothing of the gains and the losses,   *)
(*            100*gain/(gain+loss), and 0 when gain+loss is 0               *)
(*   MACD(f,s,g) lookback (s-1)+(g-1): the slow average seeded at row s-1   *)
(*            with the mean of closes 0..s-1, the fast one seeded at the    *)
(*            same row with the mean of closes s-f..s-1, the signal seeded  *)
(*            with the mean of the first g differences                      *)
(***************************************************************************)
RECURSIVE IntSum(_, _, _)
IntSum(col, lo, hi) == IF lo > hi THEN 0 ELSE IntSum(col, lo, hi - 1) + col[hi]

ta_SMA(close, timeperiod) ==
    [ix \in 1..Len(close) |->
        IF ix < timeperiod THEN NaN
        ELSE Rat(IntSum(close, ix - timeperiod + 1, ix), timeperiod)]

\* TA_INT_EMA over rows seedLast.. of a fixed-point series: the mean of the
\* `period` rows ending at seedLast, then the recurrence; <<>> when too short
RECURSIVE FxSum(_, _, _)
FxSum(s, lo, hi) ==
    IF lo > hi THEN Int2Fx(0) ELSE FxLin(1, FxSum(s, lo, hi - 1), 1, s[hi])

RECURSIVE ta_EmaTail(_, _, _, _)
ta_EmaTail(s, period, seedLast, upto) ==
    IF upto < seedLast THEN <<>>
    ELSE IF upto = seedLast
         THEN <<FxDivSmall(FxSum(s, seedLast - period + 1, seedLast), period)>>
    ELSE LET head == ta_EmaTail(s, period, seedLast, upto - 1)
         IN  Append(head, EwmStep(head[Len(head)], s[upto], period))

ta_EMA(close, timeperiod) ==
    LET tail == ta_EmaTail(AsFx(close), timeperiod, timeperiod, Len(close))
    IN  [ix \in 1..Len(close) |->
            IF ix < timeperiod THEN NaN ELSE tail[ix - timeperiod + 1]]

\* Wilder's averages of the gains and of the losses at row `upto` (1-based,
\* upto > period): <<average gain, average loss>>
RECURSIVE ta_Wilder(_, _, _)
ta_Wilder(close, period, upto) ==
    LET d == close[upto] - close[upto - 1]
        gain == IF d > 0 THEN d ELSE 0
        loss == IF d < 0 THEN -d ELSE 0
    IN  IF upto = period + 1
        THEN LET ups == IntSum([kx \in 1..upto |->
                                   IF kx > 1 /\ close[kx] > close[kx - 1]
                                   THEN close[kx] - close[kx - 1] ELSE 0], 2, upto)
                 downs == IntSum([kx \in 1..upto |->
                                   IF kx > 1 /\ close[kx] < close[kx - 1]
                                   THEN close[kx - 1] - close[kx] ELSE 0], 2, upto)
             IN  <<FxDivSmall(Int2Fx(ups), period), FxDivSmall(Int2Fx(downs), period)>>
        ELSE LET prev == ta_Wilder(close, period, upto - 1)
             IN  <<FxDivSmall(FxLin(period - 1, prev[1], 1, Int2Fx(gain)), period),
                   FxDivSmall(FxLin(period - 1, prev[2], 1, Int2Fx(loss)), period)>>

ta_RSI(close, timeperiod) ==
    [ix \in 1..Len(close) |->
        IF ix <= timeperiod THEN NaN
        ELSE LET w == ta_Wilder(close, timeperiod, ix)
                 total == FxLin(1, w[1], 1, w[2])
             IN  IF total = Int2Fx(0) THEN Int2Rat(0)
                 ELSE [t |-> "quot", n |-> FxLin(100, w[1], 0, w[1]), d |-> total]]

\* <<macd, macdsignal>>
ta_MACD(close, fastperiod, slowperiod, signalperiod) ==
    LET n == Len(close)
        slow == ta_EmaTail(AsFx(close), slowperiod, slowperiod, n)
        fast == ta_EmaTail(AsFx(close), fastperiod, slowperiod, n)
        line == [kx \in 1..Len(slow) |-> FxSub(fast[kx], slow[kx])]
        sig == ta_EmaTail(line, signalperiod, signalperiod, Len(line))
        lookback == (slowperiod - 1) + (signalperiod - 1)
    IN  <<[ix \in 1..n |-> IF ix <= lookback THEN NaN ELSE line[ix - slowperiod + 1]],
          [ix \in 1..n |-> IF ix <= lookback THEN NaN ELSE sig[ix - lookback]]>>

(***************************************************************************)
(* Tables (DataFrames): a sequence of rows, each row a function from       *)
(* column names to values.                                                 *)
(***************************************************************************)
InputColumns == {"Date", "Open", "High", "Low", "Close", "Volume", "Symbol"}

IndicatorColumns == {"SMA_20", "EMA_20", "RSI_14", "MACD", "MACD_signal"}

Column(df, name) == [ix \in 1..Len(df) |-> df[ix][name]]

\* df[name] = series for each (name, series) of `added`: the column is
\* replaced when the table has it and appended when it has not
WithColumns(df, added) ==
    [ix \in 1..Len(df) |->
        [col \in (DOMAIN df[ix]) \cup (DOMAIN added) |->
            IF col \in DOMAIN added THEN added[col][ix] ELSE df[ix][col]]]

(***************************************************************************)
(* compute_indicators(df): [caller |-> the caller's table after the call,  *)
(* result |-> the table returned].  The function works on df.copy().       *)
(***************************************************************************)
TalibColumns(close) ==
    LET macd == ta_MACD(close, MACD_FAST, MACD_SLOW, MACD_SIGNAL)
    IN  [SMA_20 |-> ta_SMA(close, SMA_PERIOD),
         EMA_20 |-> ta_EMA(close, EMA_SPAN),
         RSI_14 |-> ta_RSI(close, RSI_PERIOD),
         MACD |-> macd[1],
         MACD_signal |-> macd[2]]

FallbackColumns(close) ==
    LET macd == Fallback_MACD(close)
    IN  [SMA_20 |-> Fallback_SMA(close),
         EMA_20 |-> Fallback_EMA(close),
         RSI_14 |-> Fallback_RSI(close),
         MACD |-> macd,
         MACD_signal |-> Fallback_MACD_signal(macd)]

IndicatorsOf(close, talib) ==
    IF talib THEN TalibColumns(close) ELSE FallbackColumns(close)

compute_indicators_in_place(df, talib) ==
    LET out == WithColumns(df, IndicatorsOf(Column(df, "Close"), talib))
    IN  [caller |-> out, result |-> out]

compute_indicators(df, talib) ==
    [caller |-> df,
     result |-> WithColumns(df, IndicatorsOf(Column(df, "Close"), talib))]

(***************************************************************************)
(* load_yfinance_data(folder_path).  A CSV file is [name |-> the file's    *)
(* base name, rows |-> its rows in file order]; `files` is the list glob   *)
(* returns, in glob's order.                                               *)
(***************************************************************************)
RequiredColumns == {"Date", "Open", "High", "Low", "Close", "Volume"}

\* DataFrame.sort_values('Date'): rows by ascending Date, ties in their order
RECURSIVE InsertByDate(_, _)
InsertByDate(sorted, row) ==
    IF sorted = <<>> THEN <<row>>
    ELSE IF sorted[Len(sorted)]["Date"] <= row["Date"] THEN Append(sorted, row)
    ELSE Append(InsertByDate(SubSeq(sorted, 1, Len(sorted) - 1), row),
                sorted[Len(sorted)])

RECURSIVE SortByDate(_)
SortByDate(rows) ==
    IF rows = <<>> THEN <<>>
    ELSE InsertByDate(SortByDate(SubSeq(rows, 1, Len(rows) - 1)), rows[Len(rows)])

\* one file's frame: sorted by Date, with the Symbol column of its name
LoadFrame(file) ==
    LET sorted == SortByDate(file.rows)
    IN  [ix \in 1..Len(sorted) |->
            [col \in (DOMAIN sorted[ix]) \cup {"Symbol"} |->
                IF col = "Symbol" THEN file.name ELSE sorted[ix][col]]]

\* pd.concat(frames, ignore_index=True)
RECURSIVE ConcatFrames(_)
ConcatFrames(fs) ==
    IF fs = <<>> THEN <<>>
    ELSE ConcatFrames(SubSeq(fs, 1, Len(fs) - 1)) \o LoadFrame(fs[Len(fs)])

\* [raised |-> the exception raised or "none", value |-> the combined table]
load_yfinance_data(fs) ==
    IF fs = <<>> THEN [raised |-> "FileNotFoundError", value |-> <<>>]
    ELSE IF \E fx \in 1..Len(fs) : \E rx \in 1..Len(fs[fx].rows) :
                ~(RequiredColumns \subseteq DOMAIN fs[fx].rows[rx])
         THEN [raised |-> "ValueError", value |-> <<>>]
    ELSE [raised |-> "none", value |-> ConcatFrames(fs)]

(***************************************************************************)
(* compute_financial_metrics(df).  The annualised figures are kept as      *)
(* terms: [t |-> "pow", base |-> b] is b^TRADING_DAYS - 1 for b # 1,       *)
(* [t |-> "sqrt", of |-> v] is sqrt(v) for v > 0, and                      *)
(* [t |-> "div", num |-> x, den |-> y] is x / y for y # 0.                 *)
(***************************************************************************)
\* the file names a folder may hold, in the order groupby sorts its keys
SymbolNames == <<"AAA", "BBB">>

\* the keys of df.groupby('Symbol'), sorted
GroupKeys(df) ==
    SelectSeq(SymbolNames, LAMBDA sym : \E ix \in 1..Len(df) : df[ix]["Symbol"] = sym)

\* the group of one key: its rows, in the table's order
Group(df, sym) == SelectSeq(df, LAMBDA row : row["Symbol"] = sym)

\* close.pct_change().dropna() for positive closes: the first row's nan dropped
Returns(close) ==
    [ix \in 1..(Len(close) - 1) |->
        FSub(FDiv(Int2Rat(close[ix + 1]), Int2Rat(close[ix])), Int2Rat(1))]

\* Series.mean(): nan on an empty series
Mean(s) ==
    IF Len(s) = 0 THEN NaN ELSE FDiv(WindowSum(s, 1, Len(s)), Int2Rat(Len(s)))

\* the square of Series.std() (ddof = 1): nan on fewer than two observations
Variance(s) ==
    IF Len(s) = 0 THEN NaN
    ELSE LET m == Mean(s)
             sq == [ix \in 1..Len(s) |-> FMul(FSub(s[ix], m), FSub(s[ix], m))]
         IN  FDiv(WindowSum(sq, 1, Len(sq)), Int2Rat(Len(s) - 1))

\* (1 + mean) ** 252 - 1
Annualize(mean) ==
    IF IsNaN(mean) THEN NaN
    ELSE LET base == FAdd(Int2Rat(1), mean)
         IN  IF base = Int2Rat(1) THEN Int2Rat(0) ELSE [t |-> "pow", base |-> base]

\* returns.std() * np.sqrt(252)
AnnualizeStd(variance) ==
    IF IsNaN(variance) THEN NaN
    ELSE IF variance.n = 0 THEN Int2Rat(0)
    ELSE [t |-> "sqrt", of |-> FMul(variance, Int2Rat(TRADING_DAYS))]

\* the sign of a float that is not nan
Sign(x) ==
    IF x.t = "rat" THEN (IF x.n > 0 THEN 1 ELSE IF x.n < 0 THEN -1 ELSE 0)
    ELSE IF x.t = "pow" THEN (IF x.base.n > x.base.d THEN 1 ELSE -1)
    ELSE IF x.t = "-inf" THEN -1
    ELSE IF x.t = "div" THEN (IF x.num.t = "pow" /\ x.num.base.n < x.num.base.d THEN -1 ELSE 1)
    ELSE 1

\* numpy's float division x / y
Divide(x, y) ==
    IF IsNaN(x) \/ IsNaN(y) THEN NaN
    ELSE IF Sign(y) = 0
         THEN (IF Sign(x) = 0 THEN NaN ELSE IF Sign(x) > 0 THEN Inf ELSE [t |-> "-inf"])
    ELSE IF Sign(x) = 0 THEN Int2Rat(0)
    ELSE [t |-> "div", num |-> x, den |-> y]

\* bool(x) of a float: false for zero only (nan is true)
Truthy(x) == IsNaN(x) \/ Sign(x) # 0

\* ann_return / ann_vol if ann_vol and not np.isnan(ann_vol) else np.nan
SharpeOfNanTestOnly(ann_return, ann_vol) ==
    IF ~IsNaN(ann_vol) THEN Divide(ann_return, ann_vol) ELSE NaN

SharpeOf(ann_return, ann_vol) ==
    IF Truthy(ann_vol) /\ ~IsNaN(ann_vol) THEN Divide(ann_return, ann_vol) ELSE NaN

\* 'Observations': len(group)
ObservationsOfReturns(group) == Len(group) - 1

ObservationsOf(group) == Len(group)

\* the row compute_financial_metrics builds for one group, before pynance
BasicRow(symbol, group) ==
    LET sorted == SortByDate(group)
        returns == Returns(Column(sorted, "Close"))
        ann_return == IF Len(returns) # 0 THEN Annualize(Mean(returns)) ELSE NaN
        ann_vol == IF Len(returns) # 0 THEN AnnualizeStd(Variance(returns)) ELSE NaN
    IN  ("Symbol" :> symbol)
        @@ ("Annualized Return" :> ann_return)
        @@ ("Annualized Volatility" :> ann_vol)
        @@ ("Sharpe Ratio (approx)" :> SharpeOf(ann_return, ann_vol))
        @@ ("Observations" :> ObservationsOf(group))

\* what pn.performance.Performance(close).max_drawdown() may do: return a
\* value, or raise (the pynance API may vary)
PynanceOutcomes == {"ok", "AttributeError", "TypeError"}

\* the exception classes of the run, all subclasses of Exception
ExceptionClasses == {"AttributeError", "TypeError", "ValueError", "FileNotFoundError"}

\* `except Exception` catches every one of them
ExceptCatchesOnlyAttributeError(exc) == exc = "AttributeError"

ExceptCatches(exc) == exc \in ExceptionClasses

\* the try/except around pynance:
\* [raised |-> the exception that leaves the handler or "none", row |-> the row]
WithMaxDrawdown(row, outcome) ==
    IF outcome = "ok"
    THEN [raised |-> "none",
          row |-> row @@ ("Max Drawdown" :> [t |-> "external", of |-> "max_drawdown"])]
    ELSE IF ExceptCatches(outcome)
         THEN [raised |-> "none", row |-> row @@ ("Max Drawdown" :> NaN)]
    ELSE [raised |-> outcome, row |-> row]

(***************************************************************************)
(* State.                                                                  *)
(***************************************************************************)
VARIABLES
    TALIB_AVAILABLE,    \* set by the import of talib at module load
    PYNANCE_AVAILABLE,  \* set by the import of pynance at module load
    pc,                 \* where the caller is
    files,              \* the CSV files of the data folder, in glob's order
    df,                 \* the caller's table (main: the loaded table)
    df_ind,             \* what compute_indicators returned
    metrics,            \* compute_financial_metrics: the rows built so far
    gi,                 \* compute_financial_metrics: index of the next group
    pn_calls,           \* what each pynance call so far did
    raised              \* the exception that ended the run, or "none"

vars == <<TALIB_AVAILABLE, PYNANCE_AVAILABLE, pc, files, df, df_ind,
          metrics, gi, pn_calls, raised>>

(***************************************************************************)
(* Inputs.                                                                 *)
(***************************************************************************)
\* one CSV row of a daily bar
CsvRow(date, close) ==
    [Date |-> date, Open |-> close, High |-> close, Low |-> close,
     Close |-> close, Volume |-> 100 * date]

\* the CSV contents of n rows: one row per date 1..n, closes in 1..MaxClose,
\* written oldest first or newest first
CsvContents(n) ==
    {[rx \in 1..n |-> CsvRow(IF asc THEN rx ELSE n + 1 - rx, closes[rx])] :
        closes \in [1..n -> 1..MaxClose], asc \in IF n > 1 THEN BOOLEAN ELSE {TRUE}}

AllCsvContents == UNION {CsvContents(n) : n \in 1..MaxRows}

\* the data folders: no file, one file, or two files in either glob order,
\* with at most MaxRows rows in all
Folders ==
    {<<>>}
    \cup {<<[name |-> SymbolNames[sx], rows |-> rows]>> :
            sx \in 1..Len(SymbolNames), rows \in AllCsvContents}
    \cup {<<[name |-> SymbolNames[pair[1]], rows |-> pair[2]],
            [name |-> SymbolNames[3 - pair[1]], rows |-> pair[3]]>> :
            pair \in {cand \in (1..2) \X AllCsvContents \X AllCsvContents :
                        Len(cand[2]) + Len(cand[3]) <= MaxRows}}

\* the moves of a close from one day to the next in the engine's inputs
Moves == {-1, 0, 1}

\* a price series of n days in two phases: k days moving by d1 a day, then
\* moving by d2 a day, from a price that keeps every close positive
TwoPhaseCloses(n, k, d1, d2) ==
    [rx \in 1..n |->
        (MaxLen + 2) + d1 * (IF rx - 1 < k THEN rx - 1 ELSE k)
                     + d2 * (IF rx - 1 < k THEN 0 ELSE rx - 1 - k)]

EngineCloses ==
    {TwoPhaseCloses(n, k, d1, d2) :
        n \in 1..MaxLen, k \in 0..MaxLen, d1 \in Moves, d2 \in Moves}

\* one symbol's table, already loaded: dates ascending
EngineTable(closes) ==
    [rx \in 1..Len(closes) |->
        [col \in RequiredColumns \cup {"Symbol"} |->
            IF col = "Symbol" THEN SymbolNames[1] ELSE CsvRow(rx, closes[rx])[col]]]

(***************************************************************************)
(* main(): load, compute_indicators, compute_financial_metrics (one step   *)
(* per group of its loop), then the per-symbol plots.                      *)
(***************************************************************************)
Init ==
    /\ TALIB_AVAILABLE \in BOOLEAN
    /\ PYNANCE_AVAILABLE \in BOOLEAN
    /\ files \in Folders
    /\ pc = "load"
    /\ df = <<>>
    /\ df_ind = <<>>
    /\ metrics = <<>>
    /\ gi = 1
    /\ pn_calls = <<>>
    /\ raised = "none"

\* df = load_yfinance_data(data_dir)
Load ==
    /\ pc = "load"
    /\ LET loaded == load_yfinance_data(files)
       IN  /\ raised' = loaded.raised
           /\ df' = loaded.value
           /\ pc' = IF loaded.raised = "none" THEN "indicators" ELSE "raised"
    /\ UNCHANGED <<TALIB_AVAILABLE, PYNANCE_AVAILABLE, files, df_ind, metrics,
                   gi, pn_calls>>

\* df_ind = compute_indicators(df)
Indicators ==
    /\ pc = "indicators"
    /\ LET call == compute_indicators(df, TALIB_AVAILABLE)
       IN  /\ df' = call.caller
           /\ df_ind' = call.result
    /\ pc' = "metrics"
    /\ UNCHANGED <<TALIB_AVAILABLE, PYNANCE_AVAILABLE, files, metrics, gi,
                   pn_calls, raised>>

\* one pass of `for symbol, group in df.groupby('Symbol')`
MetricsRow ==
    /\ pc = "metrics"
    /\ gi <= Len(GroupKeys(df_ind))
    /\ \E outcome \in IF PYNANCE_AVAILABLE THEN PynanceOutcomes ELSE {"absent"} :
        LET symbol == GroupKeys(df_ind)[gi]
            row == BasicRow(symbol, Group(df_ind, symbol))
            tried == IF PYNANCE_AVAILABLE THEN WithMaxDrawdown(row, outcome)
                     ELSE [raised |-> "none", row |-> row]
        IN  /\ pn_calls' = Append(pn_calls, outcome)
            /\ raised' = tried.raised
            /\ metrics' = IF tried.raised = "none" THEN Append(metrics, tried.row)
                          ELSE metrics
            /\ gi' = IF tried.raised = "none" THEN gi + 1 ELSE gi
            /\ pc' = IF tried.raised = "none" THEN "metrics" ELSE "raised"
    /\ UNCHANGED <<TALIB_AVAILABLE, PYNANCE_AVAILABLE, files, df, df_ind>>

\* metrics_df = pd.DataFrame(metrics); return metrics_df
MetricsReturn ==
    /\ pc = "metrics"
    /\ gi > Len(GroupKeys(df_ind))
    /\ pc' = "plots"
    /\ UNCHANGED <<TALIB_AVAILABLE, PYNANCE_AVAILABLE, files, df, df_ind,
                   metrics, gi, pn_calls, raised>>

\* the plots of the groups of df_ind (rendering is not modelled)
Plots ==
    /\ pc = "plots"
    /\ pc' = "done"
    /\ UNCHANGED <<TALIB_AVAILABLE, PYNANCE_AVAILABLE, files, df, df_ind,
                   metrics, gi, pn_calls, raised>>

Next == Load \/ Indicators \/ MetricsRow \/ MetricsReturn \/ Plots

Spec == Init /\ [][Next]_vars

(***************************************************************************)
(* compute_indicators alone, on one symbol's price series.                 *)
(***************************************************************************)
EngineInit ==
    /\ TALIB_AVAILABLE \in BOOLEAN
    /\ PYNANCE_AVAILABLE = FALSE
    /\ files = <<>>
    /\ pc = "call"
    /\ df \in {EngineTable(closes) : closes \in EngineCloses}
    /\ df_ind = <<>>
    /\ metrics = <<>>
    /\ gi = 1
    /\ pn_calls = <<>>
    /\ raised = "none"

\* out = compute_indicators(df)
EngineCall ==
    /\ pc = "call"
    /\ LET call == compute_indicators(df, TALIB_AVAILABLE)
       IN  /\ df' = call.caller
           /\ df_ind' = call.result
    /\ pc' = "returned"
    /\ UNCHANGED <<TALIB_AVAILABLE, PYNANCE_AVAILABLE, files, metrics, gi,
                   pn_calls, raised>>

EngineNext == EngineCall

SpecEngine == EngineInit /\ [][EngineNext]_vars

(***************************************************************************)
(* Helpers of the properties.                                              *)
(***************************************************************************)
\* two floats of a table are the same value: both nan, or equal numbers
SameFloat(x, y) == IF IsNaN(x) \/ IsNaN(y) THEN IsNaN(x) /\ IsNaN(y) ELSE NumEq(x, y)

Closes(table) == Column(table, "Close")

\* the trailing RSI_PERIOD moves ending at row ix (1-based, ix > RSI_PERIOD)
TrailingMoves(ix) == (ix - RSI_PERIOD + 1)..ix

NoFallIn(close, rows) == \A jx \in rows : close[jx] >= close[jx - 1]

SomeRiseIn(close, rows) == \E jx \in rows : close[jx] > close[jx - 1]

\* the mean of closes max(0, i-19)..i, for the 1-based row ix
TrailingMean(close, ix) ==
    LET lo == Max(1, ix - SMA_PERIOD + 1)
    IN  Rat(IntSum(close, lo, ix), ix - lo + 1)

IsConstant(close) == \A jx \in 1..Len(close) : close[jx] = close[1]

KeySet(table) == {GroupKeys(table)[kx] : kx \in 1..Len(GroupKeys(table))}

AfterMetrics == pc \in {"plots", "done"}

(***************************************************************************)
(* C1.  compute_indicators returns a table with the rows of its input in   *)
(* the same order, every input column unchanged at every row and exactly   *)
(* the five indicator columns added, and leaves the caller's table as it   *)
(* was.                                                                    *)
(***************************************************************************)
C1_FrameEffect ==
    [][pc = "call" =>
        /\ df' = df
        /\ Len(df_ind') = Len(df)
        /\ \A ix \in 1..Len(df) :
            /\ DOMAIN df[ix] = InputColumns
            /\ DOMAIN df_ind'[ix] = InputColumns \cup IndicatorColumns
            /\ \A col \in InputColumns : df_ind'[ix][col] = df[ix][col]]_vars

C1_Witness ==
    /\ pc = "returned"
    /\ Len(df) = MaxLen
    /\ Len(df_ind) = MaxLen
    /\ "MACD_signal" \in DOMAIN df_ind[MaxLen]
    /\ "MACD_signal" \notin DOMAIN df[MaxLen]

(***************************************************************************)
(* C2.  In the run of main, the indicator values on the rows of a symbol   *)
(* are those compute_indicators gives for that symbol's date-ordered       *)
(* series alone.                                                           *)
(***************************************************************************)
C2_SymbolIndependence ==
    pc \in {"metrics", "plots", "done"} =>
        \A sym \in KeySet(df_ind) :
            LET inrun == Group(df_ind, sym)
                alone == compute_indicators(Group(df, sym), TALIB_AVAILABLE).result
            IN  \A ix \in 1..Len(inrun) : \A col \in IndicatorColumns :
                    SameFloat(inrun[ix][col], alone[ix][col])

(***************************************************************************)
(* C3.  For every series, row and indicator column, the TA-Lib branch and  *)
(* the fallback branch are defined together and agree where defined.       *)
(***************************************************************************)
C3_BackendEquivalence ==
    LET native == TalibColumns(Closes(df))
        fallback == FallbackColumns(Closes(df))
    IN  \A col \in IndicatorColumns : \A ix \in 1..Len(df) :
            SameFloat(native[col][ix], fallback[col][ix])

C5_SmaExpandingWindow ==
    pc = "returned" =>
        \A ix \in 1..Len(df_ind) :
            SameFloat(df_ind[ix]["SMA_20"], TrailingMean(Closes(df), ix))

(***************************************************************************)
(* C6.  compute_financial_metrics raises nothing, and a symbol with fewer  *)
(* than two rows gets a row whose Observations is its number of rows and   *)
(* whose return, volatility and Sharpe ratio are nan.                      *)
(***************************************************************************)
C6_FewObservations ==
    /\ raised \notin PynanceOutcomes
    /\ AfterMetrics =>
        \A sym \in KeySet(df_ind) :
            Len(Group(df_ind, sym)) < 2 =>
                \E kx \in 1..Len(metrics) :
                    /\ metrics[kx]["Symbol"] = sym
                    /\ metrics[kx]["Observations"] = Len(Group(df_ind, sym))
                    /\ IsNaN(metrics[kx]["Annualized Return"])
                    /\ IsNaN(metrics[kx]["Annualized Volatility"])
                    /\ IsNaN(metrics[kx]["Sharpe Ratio (approx)"])

C6_Witness ==
    /\ pc = "done"
    /\ Len(metrics) = 2
    /\ Len(Group(df_ind, metrics[1]["Symbol"])) = 1
    /\ Len(Group(df_ind, metrics[2]["Symbol"])) = 2
    /\ metrics[1]["Observations"] = 1

(***************************************************************************)
(* C7.  In every summary row the Sharpe ratio is the annualised return     *)
(* divided by the annualised volatility when the volatility is a number    *)
(* greater than zero, and nan in every other case.                         *)
(***************************************************************************)
C7_SharpeDefinedness ==
    \A kx \in 1..Len(metrics) :
        LET ret == metrics[kx]["Annualized Return"]
            vol == metrics[kx]["Annualized Volatility"]
            sharpe == metrics[kx]["Sharpe Ratio (approx)"]
        IN  IF ~IsNaN(vol) /\ Sign(vol) > 0
            THEN ~IsNaN(ret) /\ sharpe = Divide(ret, vol) /\ ~IsNaN(sharpe)
            ELSE IsNaN(sharpe)

C7_Witness ==
    /\ pc = "done"
    /\ \E kx \in 1..Len(metrics) :
        /\ metrics[kx]["Observations"] = 3
        /\ metrics[kx]["Annualized Volatility"].t = "sqrt"
        /\ metrics[kx]["Sharpe Ratio (approx)"].t = "div"

(***************************************************************************)
(* C8.  A pynance failure never ends compute_financial_metrics: it turns   *)
(* that symbol's Max Drawdown into nan, the symbol's other fields are      *)
(* those computed without pynance, and every symbol gets its row.          *)
(***************************************************************************)
C8_PynanceFailureContained ==
    /\ raised \notin PynanceOutcomes
    /\ Len(metrics) = gi - 1
    /\ Len(pn_calls) = Len(metrics)
    /\ AfterMetrics => Len(metrics) = Len(GroupKeys(df_ind))
    /\ \A kx \in 1..Len(metrics) :
        LET sym == GroupKeys(df_ind)[kx]
            basic == BasicRow(sym, Group(df_ind, sym))
        IN  /\ \A col \in DOMAIN basic : metrics[kx][col] = basic[col]
            /\ PYNANCE_AVAILABLE =>
                /\ DOMAIN metrics[kx] = DOMAIN basic \cup {"Max Drawdown"}
                /\ IsNaN(metrics[kx]["Max Drawdown"]) <=> pn_calls[kx] # "ok"
            /\ ~PYNANCE_AVAILABLE => DOMAIN metrics[kx] = DOMAIN basic

C8_Witness ==
    /\ pc = "done"
    /\ PYNANCE_AVAILABLE
    /\ Len(metrics) = 2
    /\ pn_calls = <<"TypeError", "ok">>
    /\ IsNaN(metrics[1]["Max Drawdown"])
    /\ ~IsNaN(metrics[2]["Max Drawdown"])

(***************************************************************************)
(* C9.  RSI_14 is nan at each of the first 14 rows; on a series of fewer   *)
(* than 15 rows nothing is raised, RSI_14 is nan at every row and the      *)
(* other four indicators are computed at every row.                        *)
(***************************************************************************)
C9_RsiWarmUp ==
    pc = "returned" =>
        /\ raised = "none"
        /\ \A ix \in 1..Len(df_ind) : ix <= RSI_PERIOD => IsNaN(df_ind[ix]["RSI_14"])
        /\ Len(df_ind) <= RSI_PERIOD =>
            \A ix \in 1..Len(df_ind) : \A col \in IndicatorColumns \ {"RSI_14"} :
                ~IsNaN(df_ind[ix][col])

(***************************************************************************)
(* C10.  On a series of at least 20 rows whose close is a constant c,      *)
(* SMA_20 and EMA_20 are c at every row where they are defined, and        *)
(* RSI_14 is nan at every row.                                             *)
(***************************************************************************)
C10_ConstantSeries ==
    (pc = "returned" /\ Len(df_ind) >= SMA_PERIOD /\ IsConstant(Closes(df))) =>
        \A ix \in 1..Len(df_ind) :
            /\ IsNaN(df_ind[ix]["SMA_20"]) \/ IsInt(df_ind[ix]["SMA_20"], df[1]["Close"])
            /\ IsNaN(df_ind[ix]["EMA_20"]) \/ IsInt(df_ind[ix]["EMA_20"], df[1]["Close"])
            /\ IsNaN(df_ind[ix]["RSI_14"])

(***************************************************************************)
(* The pandas fallback alone (TA-Lib not installed) has the properties of  *)
(* C5, C9 and C10: their failures are those of the TA-Lib branch.          *)
(***************************************************************************)
Fallback_C5 == ~TALIB_AVAILABLE => C5_SmaExpandingWindow

Fallback_C9 == ~TALIB_AVAILABLE => C9_RsiWarmUp

Fallback_C10 == ~TALIB_AVAILABLE => C10_ConstantSeries

\* the fallback is 100 exactly where the trailing 14 moves hold a rise and no
\* fall, and nan where they hold no move at all
Fallback_C4 ==
    (~TALIB_AVAILABLE /\ pc = "returned") =>
        \A ix \in (RSI_PERIOD + 1)..Len(df_ind) :
            /\ IsInt(df_ind[ix]["RSI_14"], 100)
                <=> (NoFallIn(Closes(df), TrailingMoves(ix))
                     /\ SomeRiseIn(Closes(df), TrailingMoves(ix)))
            /\ IsNaN(df_ind[ix]["RSI_14"])
                <=> (\A jx \in TrailingMoves(ix) : Closes(df)[jx] = Closes(df)[jx - 1])

=============================================================================
